---- MODULE Spec2Model ----
(***************************************************************************)
(* Model of app1.py, a Streamlit script that downloads a daily OHLCV       *)
(* series, draws charts, computes SMA20 / SMA50 / RSI and exports a CSV.   *)
(*                                                                         *)
(* Numbers are the floats pandas works on, modelled as extended rationals: *)
(* a record [k, n, d] with k one of "num" (the reduced fraction n/d, d>0), *)
(* "nan", "inf", "ninf".  Arithmetic follows IEEE-754 for the special      *)
(* values (x/0 is +-inf, 0/0 is nan, nan propagates); finite results are   *)
(* exact, i.e. rounding error is not modelled.  The sign of zero is not    *)
(* modelled: in compute_rsi a loss of -0.0 gives gain/-0.0 = -inf and      *)
(* 100 - 100/(1 + -inf) = 100, the same value as for +0.0.                 *)
(***************************************************************************)
EXTENDS Integers, Sequences, FiniteSets, TLC

VARIABLES
    pc,               \* position of the script run
    today,            \* date.today()
    def_date_option,  \* sidebar selectbox, line 25
    start_date,       \* lines 28/31/34
    end_date,         \* lines 29/32/35
    analysis_type,    \* sidebar selectbox, line 38
    response,         \* what yf.download did (line 50)
    data,             \* the DataFrame bound to `data` (None or a frame)
    messages,         \* st.error / st.warning calls made so far
    rendered,         \* charts handed to st.plotly_chart
    csv,              \* payload of the download button (None or a table)
    fn_pc,            \* pure-function harness: which function was applied
    fn_closes,        \* pure-function harness: input series
    fn_period,        \* pure-function harness: window / period
    fn_out            \* pure-function harness: returned series

vars == <<pc, today, def_date_option, start_date, end_date, analysis_type,
          response, data, messages, rendered, csv,
          fn_pc, fn_closes, fn_period, fn_out>>

runVars == <<pc, today, def_date_option, start_date, end_date, analysis_type,
             response, data, messages, rendered, csv>>

fnVars == <<fn_pc, fn_closes, fn_period, fn_out>>

(***************************************************************************)
(* Bounds                                                                  *)
(***************************************************************************)
MaxLen == 5        \* longest input series of the pure-function harness
MaxPrice == 5      \* closes of the harness are drawn from 1..MaxPrice
MaxPeriod == 3     \* windows / periods of the harness are 1..MaxPeriod

(***************************************************************************)
(* Extended rationals                                                      *)
(***************************************************************************)
Abs(x) == IF x < 0 THEN -x ELSE x

RECURSIVE GCD(_, _)
GCD(a, b) == IF b = 0 THEN a ELSE GCD(b, a % b)

NaN == [k |-> "nan", n |-> 0, d |-> 1]
Inf == [k |-> "inf", n |-> 1, d |-> 1]
NegInf == [k |-> "ninf", n |-> -1, d |-> 1]

\* the float n/d (d # 0), reduced
Frac(n, d) ==
    LET g == GCD(Abs(n), Abs(d))
        s == IF d < 0 THEN -1 ELSE 1
    IN [k |-> "num", n |-> (s * n) \div g, d |-> (s * d) \div g]

Num(n) == Frac(n, 1)

IsNaN(x) == x.k = "nan"

Neg(x) ==
    CASE x.k = "nan" -> NaN
      [] x.k = "inf" -> NegInf
      [] x.k = "ninf" -> Inf
      [] OTHER -> Frac(-x.n, x.d)

Add(x, y) ==
    CASE x.k = "nan" \/ y.k = "nan" -> NaN
      [] x.k = "inf" -> IF y.k = "ninf" THEN NaN ELSE Inf
      [] x.k = "ninf" -> IF y.k = "inf" THEN NaN ELSE NegInf
      [] y.k = "inf" -> Inf
      [] y.k = "ninf" -> NegInf
      [] OTHER -> Frac(x.n * y.d + y.n * x.d, x.d * y.d)

Sub(x, y) == Add(x, Neg(y))

\* x / y on floats: never raises; division by zero gives inf or nan
DivZeroIsNaN(x, y) ==
    CASE x.k = "nan" \/ y.k = "nan" -> NaN
      [] x.k \in {"inf", "ninf"} /\ y.k \in {"inf", "ninf"} -> NaN
      [] x.k = "inf" -> IF y.n < 0 THEN NegInf ELSE Inf
      [] x.k = "ninf" -> IF y.n < 0 THEN Inf ELSE NegInf
      [] y.k \in {"inf", "ninf"} -> Num(0)
      [] y.n = 0 -> NaN
      [] OTHER -> Frac(x.n * y.d, x.d * y.n)

Div(x, y) ==
    CASE x.k = "nan" \/ y.k = "nan" -> NaN
      [] x.k \in {"inf", "ninf"} /\ y.k \in {"inf", "ninf"} -> NaN
      [] x.k = "inf" -> IF y.n < 0 THEN NegInf ELSE Inf
      [] x.k = "ninf" -> IF y.n < 0 THEN Inf ELSE NegInf
      [] y.k \in {"inf", "ninf"} -> Num(0)
      [] y.n = 0 -> IF x.n = 0 THEN NaN ELSE IF x.n > 0 THEN Inf ELSE NegInf
      [] OTHER -> Frac(x.n * y.d, x.d * y.n)

\* x > 0 and x < 0 on floats: False for nan
GtZero(x) == x.k = "inf" \/ (x.k = "num" /\ x.n > 0)
LtZero(x) == x.k = "ninf" \/ (x.k = "num" /\ x.n < 0)

(***************************************************************************)
(* pandas Series operations used by the script                             *)
(***************************************************************************)
\* Series.diff(): position 0 is nan, position i is s[i] - s[i-1]
diff(s) == [i \in 1..Len(s) |-> IF i = 1 THEN NaN ELSE Sub(s[i], s[i - 1])]

\* delta.where(delta > 0, 0): keep where the condition is True, else 0
where_gt0(s) == [i \in 1..Len(s) |-> IF GtZero(s[i]) THEN s[i] ELSE Num(0)]

\* delta.where(delta < 0, 0)
where_lt0(s) == [i \in 1..Len(s) |-> IF LtZero(s[i]) THEN s[i] ELSE Num(0)]

\* unary minus on a Series
neg(s) == [i \in 1..Len(s) |-> Neg(s[i])]

\* the sum of s[lo..hi], halving the range to keep the evaluation shallow
RECURSIVE SumRange(_, _, _)
SumRange(s, lo, hi) ==
    IF lo > hi THEN Num(0)
    ELSE IF lo = hi THEN s[lo]
    ELSE LET mid == (lo + hi) \div 2
         IN Add(SumRange(s, lo, mid), SumRange(s, mid + 1, hi))

\* Series.rolling(window=w).mean(): min_periods defaults to the window, so a
\* position whose window is not full, or holds a nan, is nan
RollingMeanMinPeriods1(s, w) ==
    [i \in 1..Len(s) |->
        LET lo == IF i < w THEN 1 ELSE i - w + 1
        IN IF \E j \in lo..i : IsNaN(s[j])
           THEN NaN
           ELSE Div(SumRange(s, lo, i), Num(i - lo + 1))]

RollingMean(s, w) ==
    [i \in 1..Len(s) |->
        IF i < w \/ \E j \in (i - w + 1)..i : IsNaN(s[j])
        THEN NaN
        ELSE Div(SumRange(s, i - w + 1, i), Num(w))]

\* gain / loss, elementwise
div(a, b) == [i \in 1..Len(a) |-> Div(a[i], b[i])]

\* compute_rsi with the minus sign of `loss` dropped
compute_rsi_signed_loss(series, period) ==
    LET delta == diff(series)
        gain == RollingMean(where_gt0(delta), period)
        loss == RollingMean(where_lt0(delta), period)
        rs == div(gain, loss)
    IN [i \in 1..Len(rs) |-> Sub(Num(100), Div(Num(100), Add(Num(1), rs[i])))]

\* compute_rsi with gain and loss swapped
compute_rsi_swapped(series, period) ==
    LET delta == diff(series)
        gain == RollingMean(where_gt0(delta), period)
        loss == RollingMean(neg(where_lt0(delta)), period)
        rs == div(loss, gain)
    IN [i \in 1..Len(rs) |-> Sub(Num(100), Div(Num(100), Add(Num(1), rs[i])))]

compute_rsi(series, period) ==
    LET delta == diff(series)
        gain == RollingMean(where_gt0(delta), period)
        loss == RollingMean(neg(where_lt0(delta)), period)
        rs == div(gain, loss)
        rsi == [i \in 1..Len(rs) |->
                   Sub(Num(100), Div(Num(100), Add(Num(1), rs[i])))]
    IN rsi

(***************************************************************************)
(* Pure-function harness: the indicator functions applied to every short   *)
(* series of closes and every small window                                 *)
(***************************************************************************)
Prices == 1..MaxPrice

SeqsUpTo(S, n) == UNION {[1..m -> S] : m \in 0..n}

ToSeries(xs) == [i \in 1..Len(xs) |-> Num(xs[i])]

None == [kind |-> "None"]

RunIdle ==
    /\ pc = "idle"
    /\ today = None
    /\ def_date_option = "unset"
    /\ start_date = None
    /\ end_date = None
    /\ analysis_type = "unset"
    /\ response = None
    /\ data = None
    /\ messages = << >>
    /\ rendered = {}
    /\ csv = None

InitFn ==
    /\ RunIdle
    /\ fn_pc = "input"
    /\ fn_closes \in SeqsUpTo(Prices, MaxLen)
    /\ fn_period \in 1..MaxPeriod
    /\ fn_out = << >>

\* data['Close'].rolling(window=w).mean()
ApplySMA ==
    /\ fn_pc = "input"
    /\ fn_out' = RollingMean(ToSeries(fn_closes), fn_period)
    /\ fn_pc' = "sma"
    /\ UNCHANGED <<fn_closes, fn_period>>
    /\ UNCHANGED runVars

\* compute_rsi(data['Close'], period)
ApplyRSI ==
    /\ fn_pc = "input"
    /\ fn_out' = compute_rsi(ToSeries(fn_closes), fn_period)
    /\ fn_pc' = "rsi"
    /\ UNCHANGED <<fn_closes, fn_period>>
    /\ UNCHANGED runVars

NextFn == ApplySMA \/ ApplyRSI

SpecFn == InitFn /\ [][NextFn]_vars

(***************************************************************************)
(* Calendar dates (datetime.date)                                          *)
(***************************************************************************)
Date(y, m, d) == [kind |-> "date", year |-> y, month |-> m, day |-> d]

IsLeap(y) == (y % 4 = 0 /\ y % 100 # 0) \/ y % 400 = 0

DaysInMonth(y, m) ==
    IF m = 2 THEN (IF IsLeap(y) THEN 29 ELSE 28)
    ELSE IF m \in {4, 6, 9, 11} THEN 30 ELSE 31

IsValidDate(y, m, d) == m \in 1..12 /\ d >= 1 /\ d <= DaysInMonth(y, m)

ValueError == [kind |-> "ValueError"]

\* date.replace(year=y, month=m): raises ValueError when the day does not
\* exist in the target month
replace(dt, y, m) == IF IsValidDate(y, m, dt.day) THEN Date(y, m, dt.day) ELSE ValueError

DateLT(a, b) ==
    \/ a.year < b.year
    \/ a.year = b.year /\ a.month < b.month
    \/ a.year = b.year /\ a.month = b.month /\ a.day < b.day

DateLE(a, b) == a = b \/ DateLT(a, b)

Max(a, b) == IF a > b THEN a ELSE b

min_date == Date(2015, 1, 1)

default_start == Date(2023, 1, 1)

Years == {2027, 2028}

\* every calendar day of the modelled years
AllDays ==
    {dt \in {Date(y, m, d) : y \in Years, m \in 1..12, d \in 1..31} :
        IsValidDate(dt.year, dt.month, dt.day)}

\* the days on which the whole script is run in the model
RunDays == {Date(2028, 2, 29), Date(2027, 8, 31), Date(2028, 1, 15)}

(***************************************************************************)
(* DataFrames: an ordered list of column labels and an ordered list of     *)
(* rows, each row an index value (the timestamp, a day number) and a       *)
(* value per column.  Column labels are the level-0 labels (lines 69-70    *)
(* reduce a MultiIndex to them).                                           *)
(***************************************************************************)
MaxRows == 3       \* longest arbitrary provider frame
MaxTs == 3         \* timestamps of arbitrary provider frames are 1..MaxTs

OHLCV == <<"Open", "High", "Low", "Close", "Volume">>

Derived == <<"SMA20", "SMA50", "RSI">>

Range(f) == {f[i] : i \in DOMAIN f}

Frame(cols, rows) == [kind |-> "frame", columns |-> cols, rows |-> rows]

\* one bar; an incomplete bar has no close
Bar(ts, price, complete) ==
    [ts |-> ts,
     v |-> [c \in Range(OHLCV) |->
              IF c = "Volume" THEN Num(1000)
              ELSE IF c = "Close" /\ ~complete THEN NaN
              ELSE Num(price)]]

\* DataFrame.empty
empty(f) == Len(f.rows) = 0 \/ Len(f.columns) = 0

column(f, c) == [i \in 1..Len(f.rows) |-> f.rows[i].v[c]]

IsMonotonic(rows) == \A i \in 1..(Len(rows) - 1) : rows[i].ts <= rows[i + 1].ts

\* sort_index(): the rows ordered by ascending index; the relative order of
\* rows with equal index is not specified (the default sort is not stable),
\* and an index that is already ascending is left as it is
sort_index_noop(f) == {f}

sort_index(f) ==
    IF IsMonotonic(f.rows) THEN {f}
    ELSE {Frame(f.columns, [i \in 1..Len(f.rows) |-> f.rows[p[i]]]) :
            p \in {q \in Permutations(1..Len(f.rows)) :
                     IsMonotonic([i \in 1..Len(f.rows) |-> f.rows[q[i]]])}}

IsComplete(r) == \A c \in DOMAIN r.v : ~IsNaN(r.v[c])

\* dropna(): drop every row that holds a nan
dropna(f) == Frame(f.columns, SelectSeq(f.rows, IsComplete))

\* dropna(subset=[...])
dropna_subset(f, subset) ==
    Frame(f.columns, SelectSeq(f.rows, LAMBDA r : \A c \in subset : ~IsNaN(r.v[c])))

\* data[name] = values: a new column is appended, an existing one replaced
with_column(f, name, values) ==
    Frame(IF name \in Range(f.columns) THEN f.columns ELSE Append(f.columns, name),
          [i \in 1..Len(f.rows) |->
              [ts |-> f.rows[i].ts,
               v |-> [c \in (DOMAIN f.rows[i].v) \cup {name} |->
                        IF c = name THEN values[i] ELSE f.rows[i].v[c]]]])

\* lines 110-112 without the SMA50 column
technical_columns_no_sma50(f) ==
    LET f1 == with_column(f, "SMA20", RollingMean(column(f, "Close"), 20))
    IN with_column(f1, "RSI", compute_rsi(column(f1, "Close"), 14))

\* lines 110-112
technical_columns(f) ==
    LET f1 == with_column(f, "SMA20", RollingMean(column(f, "Close"), 20))
        f2 == with_column(f1, "SMA50", RollingMean(column(f1, "Close"), 50))
    IN with_column(f2, "RSI", compute_rsi(column(f2, "Close"), 14))

Empty == [k |-> "empty", n |-> 0, d |-> 1]

\* DataFrame.to_csv(): a header of the column labels and one line per row;
\* a nan is written as the empty string
to_csv(f) ==
    [kind |-> "csv",
     columns |-> f.columns,
     rows |-> [i \in 1..Len(f.rows) |->
                 [ts |-> f.rows[i].ts,
                  cells |-> [j \in 1..Len(f.columns) |->
                               IF IsNaN(f.rows[i].v[f.columns[j]])
                               THEN Empty
                               ELSE f.rows[i].v[f.columns[j]]]]]]

(***************************************************************************)
(* The provider (yf.download): raises, or returns a frame                  *)
(***************************************************************************)
Raise == [kind |-> "raise"]

ShortFrames ==
    {Frame(OHLCV, rows) :
        rows \in SeqsUpTo({Bar(ts, 100 + ts, c) : ts \in 1..MaxTs, c \in BOOLEAN}, MaxRows)}

\* longer, well-formed series: one rising, one zigzag
LongFrames ==
    {Frame(OHLCV, [i \in 1..n |-> Bar(i, 100 + i, TRUE)]) : n \in {15, 20, 51}}
    \cup
    {Frame(OHLCV, [i \in 1..n |-> Bar(i, 100 + ((i * 7) % 5), TRUE)]) : n \in {15, 20, 51}}

ProviderResponses == {Raise} \cup ShortFrames \cup LongFrames

\* fetch_data (lines 48-59): the possible return values for a provider
\* response, with whether st.error was called
fetch_data(resp) ==
    IF resp.kind = "raise"
    THEN {[value |-> None, error |-> TRUE]}
    ELSE IF empty(resp)
    THEN {[value |-> None, error |-> FALSE]}
    ELSE {[value |-> dropna(f), error |-> FALSE] : f \in sort_index(resp)}

\* the guard of line 65 with the emptiness test left out
IsNoDataNoneOnly(d) == d = None

\* line 65: data is None or data.empty
IsNoData(d) == d = None \/ empty(d)

(***************************************************************************)
(* The script run                                                          *)
(***************************************************************************)
FnIdle ==
    /\ fn_pc = "idle"
    /\ fn_closes = << >>
    /\ fn_period = 1
    /\ fn_out = << >>

RunStart(days) ==
    /\ pc = "date_option"
    /\ today \in days
    /\ def_date_option = "unset"
    /\ start_date = None
    /\ end_date = None
    /\ analysis_type = "unset"
    /\ response = None
    /\ data = None
    /\ messages = << >>
    /\ rendered = {}
    /\ csv = None

Init == RunStart(RunDays) /\ FnIdle

\* the script dies with an uncaught exception
Crash ==
    /\ pc' = "crashed"
    /\ UNCHANGED <<start_date, end_date>>

DateChosen(s, e) ==
    /\ start_date' = s
    /\ end_date' = e
    /\ pc' = "sidebar"

\* lines 27-29
SelectLast1Year ==
    /\ pc = "date_option"
    /\ def_date_option' = "Last 1 Year"
    /\ LET s == replace(today, today.year - 1, today.month)
       IN IF s = ValueError THEN Crash ELSE DateChosen(s, today)
    /\ UNCHANGED <<today, analysis_type, response, data, messages, rendered, csv>>
    /\ UNCHANGED fnVars

\* lines 30-32
SelectLast6Months ==
    /\ pc = "date_option"
    /\ def_date_option' = "Last 6 Months"
    /\ LET s == replace(today, today.year, Max(1, today.month - 6))
       IN IF s = ValueError THEN Crash ELSE DateChosen(s, today)
    /\ UNCHANGED <<today, analysis_type, response, data, messages, rendered, csv>>
    /\ UNCHANGED fnVars

\* lines 33-35: two date pickers, each bounded by min_value and max_value
SelectCustom ==
    /\ pc = "date_option"
    /\ def_date_option' = "Custom"
    /\ \E s \in {min_date, default_start, today} :
          \E e \in {s, today} :
             /\ DateLE(min_date, s) /\ DateLE(s, today)
             /\ DateLE(s, e) /\ DateLE(e, today)
             /\ DateChosen(s, e)
    /\ UNCHANGED <<today, analysis_type, response, data, messages, rendered, csv>>
    /\ UNCHANGED fnVars

AnalysisTypes ==
    {"Technical Analysis", "Fundamental Analysis",
     "Sentimental Analysis", "Quantitative Analysis"}

\* lines 37-44
SelectAnalysisType ==
    /\ pc = "sidebar"
    /\ analysis_type' \in AnalysisTypes
    /\ pc' = "fetch"
    /\ UNCHANGED <<today, def_date_option, start_date, end_date, response, data,
                   messages, rendered, csv>>
    /\ UNCHANGED fnVars

\* lines 47-63
FetchData ==
    /\ pc = "fetch"
    /\ \E resp \in ProviderResponses :
          /\ response' = resp
          /\ \E r \in fetch_data(resp) :
                /\ data' = r.value
                /\ messages' = IF r.error
                               THEN Append(messages, "Error fetching data")
                               ELSE messages
    /\ pc' = "guard"
    /\ UNCHANGED <<today, def_date_option, start_date, end_date, analysis_type,
                   rendered, csv>>
    /\ UNCHANGED fnVars

\* lines 65-72
NoDataGuard ==
    /\ pc = "guard"
    /\ IF IsNoData(data)
       THEN /\ messages' = Append(messages, "No historical data found for this ticker.")
            /\ pc' = "stopped"
       ELSE /\ messages' = messages
            /\ pc' = "charts"
    /\ UNCHANGED <<today, def_date_option, start_date, end_date, analysis_type,
                   response, data, rendered, csv>>
    /\ UNCHANGED fnVars

\* lines 74-95
RenderCharts ==
    /\ pc = "charts"
    /\ LET candlestick_data == dropna_subset(data, {"Open", "High", "Low", "Close"})
       IN IF empty(candlestick_data)
          THEN /\ messages' = Append(messages, "No valid candlestick data to display.")
               /\ rendered' = rendered \cup {"volume"}
          ELSE /\ messages' = messages
               /\ rendered' = rendered \cup {"candlestick", "volume"}
    /\ pc' = "analysis"
    /\ UNCHANGED <<today, def_date_option, start_date, end_date, analysis_type,
                   response, data, csv>>
    /\ UNCHANGED fnVars

\* lines 109-130
TechnicalAnalysis ==
    /\ pc = "analysis"
    /\ analysis_type = "Technical Analysis"
    /\ data' = technical_columns(data)
    /\ rendered' = rendered \cup {"sma", "rsi"}
    /\ pc' = "export"
    /\ UNCHANGED <<today, def_date_option, start_date, end_date, analysis_type,
                   response, messages, csv>>
    /\ UNCHANGED fnVars

\* lines 132-158: static text only
OtherAnalysis ==
    /\ pc = "analysis"
    /\ analysis_type \in AnalysisTypes \ {"Technical Analysis"}
    /\ pc' = "export"
    /\ UNCHANGED <<today, def_date_option, start_date, end_date, analysis_type,
                   response, data, messages, rendered, csv>>
    /\ UNCHANGED fnVars

\* lines 160-161
ExportCSV ==
    /\ pc = "export"
    /\ csv' = to_csv(data)
    /\ pc' = "done"
    /\ UNCHANGED <<today, def_date_option, start_date, end_date, analysis_type,
                   response, data, messages, rendered>>
    /\ UNCHANGED fnVars

Next ==
    \/ SelectLast1Year
    \/ SelectLast6Months
    \/ SelectCustom
    \/ SelectAnalysisType
    \/ FetchData
    \/ NoDataGuard
    \/ RenderCharts
    \/ TechnicalAnalysis
    \/ OtherAnalysis
    \/ ExportCSV

Spec == Init /\ [][Next]_vars

\* the date-range selection alone, on every calendar day
InitDates == RunStart(AllDays) /\ FnIdle

NextDates == SelectLast1Year \/ SelectLast6Months \/ SelectCustom

SpecDates == InitDates /\ [][NextDates]_vars

(***************************************************************************)
(* Reference quantities, computed on the integer closes of the harness     *)
(***************************************************************************)
RECURSIVE SumInt(_, _, _)
SumInt(xs, lo, hi) == IF lo > hi THEN 0 ELSE xs[lo] + SumInt(xs, lo + 1, hi)

\* the successive difference ending at position i (1-indexed, i >= 2)
DeltaAt(i) == fn_closes[i] - fn_closes[i - 1]

\* positions (1-indexed) whose trailing `fn_period` deltas are all differences
\* of actual successive closes: 0-indexed position >= period
FullWindowPositions == {i \in 1..Len(fn_closes) : i >= fn_period + 1}

WindowOf(i) == (i - fn_period + 1)..i

RECURSIVE SumGain(_, _)
SumGain(lo, hi) ==
    IF lo > hi THEN 0
    ELSE (IF DeltaAt(lo) > 0 THEN DeltaAt(lo) ELSE 0) + SumGain(lo + 1, hi)

RECURSIVE SumLoss(_, _)
SumLoss(lo, hi) ==
    IF lo > hi THEN 0
    ELSE (IF DeltaAt(lo) < 0 THEN -DeltaAt(lo) ELSE 0) + SumLoss(lo + 1, hi)

GainOf(i) == SumGain(i - fn_period + 1, i)
LossOf(i) == SumLoss(i - fn_period + 1, i)

(***************************************************************************)
(* Claims about the indicator functions (specification SpecFn)             *)
(***************************************************************************)

\* C1: the simple moving average of n closes with window w has n positions;
\* position i (0-indexed) is undefined when i + 1 < w and otherwise is the
\* arithmetic mean of closes[i-w+1 .. i]; a series shorter than w is all
\* undefined.
C1_SmaIsTrailingMean ==
    fn_pc = "sma" =>
        /\ Len(fn_out) = Len(fn_closes)
        /\ \A i \in 1..Len(fn_closes) :
              IF i < fn_period
              THEN fn_out[i] = NaN
              ELSE /\ fn_out[i].k = "num"
                   /\ fn_out[i].n * fn_period
                        = fn_out[i].d * SumInt(fn_closes, i - fn_period + 1, i)

C1_Witness ==
    /\ fn_pc = "sma"
    /\ fn_closes = <<1, 2, 3, 4, 5>>
    /\ fn_period = 3
    /\ fn_out = <<NaN, NaN, Num(2), Num(3), Num(4)>>

\* C2: every position at which compute_rsi returns a defined value holds a
\* value in the closed range [0, 100].
C2_RsiInRange ==
    fn_pc = "rsi" =>
        \A i \in 1..Len(fn_out) :
            ~IsNaN(fn_out[i]) =>
                /\ fn_out[i].k = "num"
                /\ 0 <= fn_out[i].n
                /\ fn_out[i].n <= 100 * fn_out[i].d

C2_Witness ==
    /\ fn_pc = "rsi"
    /\ \E i \in 1..Len(fn_out) :
          /\ fn_out[i].k = "num"
          /\ 0 < fn_out[i].n
          /\ fn_out[i].n < 100 * fn_out[i].d

\* C3: at every position whose full trailing window of `period` deltas has
\* avg_loss = 0 and avg_gain > 0, compute_rsi returns the defined value 100
\* (the division by zero yields inf, not a fault).
C3_NoLossGivesHundred ==
    fn_pc = "rsi" =>
        \A i \in FullWindowPositions :
            (LossOf(i) = 0 /\ GainOf(i) > 0) => fn_out[i] = Num(100)

C3_Witness ==
    /\ fn_pc = "rsi"
    /\ \E i \in FullWindowPositions :
          LossOf(i) = 0 /\ GainOf(i) > 0 /\ fn_out[i] = Num(100)

\* C4 (as claimed): at every position whose trailing window of `period`
\* deltas are all non-negative, compute_rsi returns 100.
C4_NonNegativeGivesHundred ==
    fn_pc = "rsi" =>
        \A i \in FullWindowPositions :
            (\A j \in WindowOf(i) : DeltaAt(j) >= 0) => fn_out[i] = Num(100)

\* C5 (as claimed): at every position whose trailing window of `period`
\* deltas are all non-positive, compute_rsi returns 0.
C5_NonPositiveGivesZero ==
    fn_pc = "rsi" =>
        \A i \in FullWindowPositions :
            (\A j \in WindowOf(i) : DeltaAt(j) <= 0) => fn_out[i] = Num(0)

\* C5 (amended): at every position whose trailing window of `period` deltas
\* are all non-positive and at least one of them is negative, compute_rsi
\* returns 0; a window of all-zero deltas yields an undefined value.
C5_FallingGivesZero ==
    fn_pc = "rsi" =>
        \A i \in FullWindowPositions :
            (\A j \in WindowOf(i) : DeltaAt(j) <= 0) =>
                IF \E j \in WindowOf(i) : DeltaAt(j) < 0
                THEN fn_out[i] = Num(0)
                ELSE fn_out[i] = NaN

C5_Witness ==
    /\ fn_pc = "rsi"
    /\ \E i \in FullWindowPositions :
          /\ \A j \in WindowOf(i) : DeltaAt(j) <= 0
          /\ \E j \in WindowOf(i) : DeltaAt(j) < 0
          /\ fn_out[i] = Num(0)

\* C6 (as claimed): compute_rsi returns a sequence of the same length as
\* closes in which rsi[i] is undefined for every 0-indexed i < period, and
\* for i >= period is the RSI of the `period` actual deltas ending at i.
C6_RsiAlignment ==
    fn_pc = "rsi" =>
        /\ Len(fn_out) = Len(fn_closes)
        /\ \A i \in 1..Len(fn_closes) :
              IF i <= fn_period
              THEN fn_out[i] = NaN
              ELSE (GainOf(i) + LossOf(i) > 0) =>
                      /\ fn_out[i].k = "num"
                      /\ fn_out[i].n * (GainOf(i) + LossOf(i))
                            = 100 * GainOf(i) * fn_out[i].d


(***************************************************************************)
(* Claims about the script run (specification Spec)                        *)
(***************************************************************************)
Timestamps(rows) == [i \in 1..Len(rows) |-> rows[i].ts]

CompleteBars(resp) == {i \in 1..Len(resp.rows) : IsComplete(resp.rows[i])}

\* the provider raised, returned an empty frame, or no row is complete
AbsentData ==
    \/ response.kind = "raise"
    \/ response.kind = "frame" /\ (empty(response) \/ CompleteBars(response) = {})

IndicatorsComputed == data # None /\ Range(data.columns) \cap Range(Derived) # {}

\* C7: when the fetch raises, the provider returns an empty response, or no
\* row survives dropna, the run halts at the no-data guard: no indicator is
\* computed, no chart is rendered, no CSV is exported, and the exception
\* does not leave fetch_data.
C7_AbsentDataHalts ==
    AbsentData =>
        /\ pc \in {"guard", "stopped"}
        /\ (data = None \/ Len(data.rows) = 0)
        /\ ~IndicatorsComputed
        /\ rendered = {}
        /\ csv = None
        /\ (response.kind = "raise" => data = None)

C7_Witness ==
    /\ pc = "stopped"
    /\ response.kind = "frame"
    /\ Len(response.rows) > 0
    /\ CompleteBars(response) = {}
    /\ data # None
    /\ rendered = {}
    /\ csv = None

\* C8 (as claimed): whenever the CSV export is produced, for every analysis
\* type, the table has one row per bar and its columns are the OHLCV fields
\* plus SMA20, SMA50 and RSI.
C8_CsvHasIndicatorColumns ==
    csv # None =>
        /\ Len(csv.rows) = Cardinality(CompleteBars(response))
        /\ csv.columns = OHLCV \o Derived

\* C8 (amended): whenever the CSV export is produced, the table has one row
\* per bar; its columns are the OHLCV fields, followed by SMA20, SMA50 and
\* RSI exactly when the analysis type is Technical Analysis.
C8_CsvColumnsByAnalysisType ==
    csv # None =>
        /\ Len(csv.rows) = Cardinality(CompleteBars(response))
        /\ \A i \in 1..Len(csv.rows) : Len(csv.rows[i].cells) = Len(csv.columns)
        /\ csv.columns = IF analysis_type = "Technical Analysis"
                         THEN OHLCV \o Derived
                         ELSE OHLCV

C8_Witness ==
    /\ csv # None
    /\ analysis_type = "Technical Analysis"
    /\ Len(csv.rows) = 51
    /\ csv.columns = OHLCV \o Derived
    /\ csv.rows[51].cells[6] # Empty
    /\ csv.rows[51].cells[7] # Empty
    /\ csv.rows[51].cells[8] # Empty

ReachesCharts == pc \in {"charts", "analysis", "export", "done"}

NoDuplicates(xs) == \A i, j \in 1..Len(xs) : i # j => xs[i] # xs[j]

StrictlyAscending(xs) == \A i \in 1..(Len(xs) - 1) : xs[i] < xs[i + 1]

Ascending(xs) == \A i \in 1..(Len(xs) - 1) : xs[i] <= xs[i + 1]

\* C9 (as claimed): for any provider response, the series that reaches the
\* charts and the indicator computation is strictly ascending by timestamp.
C9_StrictlyAscending ==
    ReachesCharts => StrictlyAscending(Timestamps(data.rows))

\* C9 (amended): the series that reaches the charts and the indicator
\* computation is ascending by timestamp; it is strictly ascending, with no
\* timestamp twice, whenever the provider response holds no timestamp twice
\* (fetch_data sorts but does not remove duplicates).
C9_AscendingKeepsDuplicates ==
    ReachesCharts =>
        /\ Ascending(Timestamps(data.rows))
        /\ NoDuplicates(Timestamps(response.rows))
              => StrictlyAscending(Timestamps(data.rows))

C9_Witness ==
    /\ ReachesCharts
    /\ ~IsMonotonic(response.rows)
    /\ NoDuplicates(Timestamps(response.rows))
    /\ Len(data.rows) = 3
    /\ StrictlyAscending(Timestamps(data.rows))

(***************************************************************************)
(* Claim about the date-range presets (specification SpecDates)            *)
(***************************************************************************)

\* C10 (as claimed): on every current date, the presets "Last 1 Year" and
\* "Last 6 Months" yield, without raising, a valid calendar date start_date
\* strictly before end_date = today.
C10_PresetRangeValid ==
    def_date_option \in {"Last 1 Year", "Last 6 Months"} =>
        /\ pc # "crashed"
        /\ start_date # None
        /\ IsValidDate(start_date.year, start_date.month, start_date.day)
        /\ end_date = today
        /\ DateLT(start_date, end_date)


====
